---- MODULE Spec2Model ----
(***************************************************************************)
(* The News & Stock dashboard of src/app.py as a state machine.           *)
(*                                                                         *)
(* The script is re-evaluated from top to bottom on every user            *)
(* interaction (a "rerun").  The state is the content of the two          *)
(* spreadsheet files, the session's widget values, and what the last      *)
(* rerun left on the page.  Every action is one interaction followed by   *)
(* the whole rerun it triggers (RunScript).                               *)
(*                                                                         *)
(* Not modelled: the page chrome (titles, sub-headers), the pie/bar       *)
(* charts of the News view and the column-projection and line-plot        *)
(* widgets of the Stocks view (lines 41-56 and 94-106): with the cell     *)
(* values used here they display data and neither raise nor write.        *)
(***************************************************************************)
EXTENDS Integers, Sequences, FiniteSets, TLC

VARIABLES files, widgets, page, interactions

vars == <<files, widgets, page, interactions>>

(***************************************************************************)
(* Bounds of the model.                                                    *)
(***************************************************************************)
\* interactions of one session
MaxInteractions == 3
\* rows of the table handed to the pivot engine in PivotSpec
MaxRows == 2
\* resolution of a timestamp: ticks per calendar day
TicksPerDay == 2

(***************************************************************************)
(* Cell values.  Every cell is a record of the same shape so that cells   *)
(* of different types can be compared.                                     *)
(***************************************************************************)
Null == [t |-> "null", s |-> "", n |-> 0]
Str(x) == [t |-> "str", s |-> x, n |-> 0]
Num(k) == [t |-> "num", s |-> "", n |-> k]
\* a date/time value, k ticks after the epoch
Ts(k) == [t |-> "ts", s |-> "", n |-> k]
\* midnight of calendar day d
Day(d) == Ts(d * TicksPerDay)

isnull(v) == v.t = "null"

(***************************************************************************)
(* Tables: an ordered list of column names and an ordered list of rows,   *)
(* each row a function from the column names to cells.                     *)
(***************************************************************************)
EmptyTable == [columns |-> <<>>, rows |-> <<>>]

Range(seq) == {seq[i] : i \in 1..Len(seq)}

HasColumn(df, c) == c \in Range(df.columns)

\* df[c].dropna().unique()
Unique(df, c) == {df.rows[i][c] : i \in 1..Len(df.rows)} \ {Null}

\* df[mask]
RECURSIVE Keep(_, _)
Keep(rows, mask) ==
    IF rows = <<>> THEN <<>>
    ELSE (IF mask[1] THEN <<Head(rows)>> ELSE <<>>)
         \o Keep(Tail(rows), Tail(mask))

\* df[df[c].isin(selected)]
IsIn(df, c, selected) ==
    [df EXCEPT !.rows =
        Keep(df.rows, [i \in 1..Len(df.rows) |-> df.rows[i][c] \in selected])]

\* select_dtypes(include='number'): a column read from a spreadsheet is
\* numeric when every cell is a number or empty
IsNumeric(df, c) ==
    \A i \in 1..Len(df.rows) : df.rows[i][c].t \in {"num", "null"}

numeric_columns(df) ==
    SelectSeq(df.columns, LAMBDA c : IsNumeric(df, c))

\* DataFrame.empty
IsEmpty(df) == df.columns = <<>> \/ df.rows = <<>>

(***************************************************************************)
(* Loading (lines 11-20).                                                  *)
(***************************************************************************)
\* a loader whose except branch forgets st.error
load_data_silent(file) ==
    [df |-> IF file.readable THEN file.content ELSE EmptyTable, failed |-> FALSE]

load_data(file) ==
    IF file.readable
    THEN [df |-> file.content, failed |-> FALSE]
    ELSE [df |-> EmptyTable, failed |-> TRUE]

(***************************************************************************)
(* News view (lines 30-59).                                                *)
(***************************************************************************)
category_options(df_news) ==
    IF HasColumn(df_news, "category") THEN Unique(df_news, "category") ELSE {}

sector_options(df_news) ==
    IF HasColumn(df_news, "sector") THEN Unique(df_news, "sector") ELSE {}

\* lines 35-39
filtered_news(df_news, categories, sectors) ==
    LET byCategory == IF categories # {} /\ HasColumn(df_news, "category")
                      THEN IsIn(df_news, "category", categories)
                      ELSE df_news
    IN  IF sectors # {} /\ HasColumn(byCategory, "sector")
        THEN IsIn(byCategory, "sector", sectors)
        ELSE byCategory

NewsView(df_news, w) ==
    [status |-> "rendered",
     filtered |-> filtered_news(df_news, w.categories, w.sectors)]

(***************************************************************************)
(* Stocks view (lines 62-110).                                             *)
(***************************************************************************)
stock_sector_options(df_stocks) ==
    IF HasColumn(df_stocks, "sector") THEN Unique(df_stocks, "sector") ELSE {}

stock_name_options(df_stocks) ==
    IF HasColumn(df_stocks, "stock_name")
    THEN Unique(df_stocks, "stock_name") ELSE {}

\* the text cells a spreadsheet may hold in a date column, as parsed by
\* pd.to_datetime(..., errors='coerce'): anything unparseable becomes NaT
ParseDate(s) ==
    CASE s = "2024-01-01" -> Day(1)
      [] s = "2024-01-02" -> Day(2)
      [] OTHER -> Null

to_datetime(v) ==
    CASE v.t = "ts" -> v
      [] v.t = "str" -> ParseDate(v.s)
      [] OTHER -> Null

\* line 86: df_stocks['date'] = pd.to_datetime(df_stocks['date'], ...)
CoerceDates(df) ==
    [df EXCEPT !.rows =
        [i \in 1..Len(df.rows) |->
            [df.rows[i] EXCEPT !["date"] = to_datetime(@)]]]

Min(S) == CHOOSE x \in S : \A y \in S : x <= y
Max(S) == CHOOSE x \in S : \A y \in S : x >= y

\* st.date_input hands back calendar dates: the time of day is dropped
DateOf(v) == v.n \div TicksPerDay

\* lines 78-82
MembershipFiltered(df_stocks, stock_sectors, stock_names) ==
    LET bySector == IF stock_sectors # {}
                    THEN IsIn(df_stocks, "sector", stock_sectors)
                    ELSE df_stocks
    IN  IF stock_names # {}
        THEN IsIn(bySector, "stock_name", stock_names)
        ELSE bySector

\* line 92: the comparison is elementwise; a text cell against a timestamp
\* raises TypeError, an empty cell compares False
ComparisonRaises(filtered) ==
    \E i \in 1..Len(filtered.rows) : filtered.rows[i]["date"].t = "str"

InRange(v, start, end) ==
    /\ v.t = "ts"
    /\ v.n >= start.n
    /\ v.n <= end.n

DateFiltered(filtered, start, end) ==
    [filtered EXCEPT !.rows =
        Keep(filtered.rows,
             [i \in 1..Len(filtered.rows) |->
                InRange(filtered.rows[i]["date"], start, end)])]

StocksPage(status, df_stocks, filtered, date_range, date_input) ==
    [status |-> status, df_stocks |-> df_stocks, filtered |-> filtered,
     date_range |-> date_range, date_input |-> date_input]

\* lines 90-92
ApplyDateRange(coerced, filtered, date_range) ==
    IF Len(date_range) # 2
    THEN StocksPage("rendered", coerced, filtered, date_range, TRUE)
    ELSE IF ComparisonRaises(filtered)
    THEN StocksPage("raised", coerced, filtered, date_range, TRUE)
    ELSE StocksPage("rendered", coerced,
                    DateFiltered(filtered, Day(date_range[1]), Day(date_range[2])),
                    date_range, TRUE)

\* lines 87-89: the range shown by a date input the user has not touched is
\* (min_date, max_date)
DateInput(known, w) ==
    IF w.date_range = <<>>
    THEN <<Min({DateOf(v) : v \in known}), Max({DateOf(v) : v \in known})>>
    ELSE w.date_range

KnownDates(coerced) ==
    {coerced.rows[i]["date"] : i \in 1..Len(coerced.rows)} \ {Null}

\* lines 86-92; when no date is known min() is NaT, which st.date_input
\* rejects
DateFilter(coerced, known, filtered, w) ==
    IF known = {}
    THEN StocksPage("raised", coerced, filtered, <<>>, FALSE)
    ELSE ApplyDateRange(coerced, filtered, DateInput(known, w))

WithDateColumn(coerced, filtered, w) ==
    DateFilter(coerced, KnownDates(coerced), filtered, w)

StocksView(df_stocks, w) ==
    IF HasColumn(df_stocks, "date")
    THEN WithDateColumn(CoerceDates(df_stocks),
             MembershipFiltered(df_stocks, w.stock_sectors, w.stock_names), w)
    ELSE StocksPage("rendered", df_stocks,
             MembershipFiltered(df_stocks, w.stock_sectors, w.stock_names),
             <<>>, FALSE)

(***************************************************************************)
(* Pivot engine: pd.pivot_table(df_source, index, columns, values,        *)
(* aggfunc, fill_value=0) as called at lines 137-144.                      *)
(***************************************************************************)
\* the None of a select box
NoneSel == ""

AggFuncs == {"sum", "mean", "count", "max", "min"}

RECURSIVE GCD(_, _)
GCD(a, b) == IF b = 0 THEN a ELSE GCD(b, a % b)

\* a cell of the result, as a fraction in lowest terms
Cell(p, q) == LET g == GCD(p, q) IN [num |-> p \div g, den |-> q \div g]

\* fill_value=0
fill_value == Cell(0, 1)

RECURSIVE SumOver(_, _)
SumOver(I, rows_values) ==
    IF I = {} THEN 0
    ELSE LET i == CHOOSE j \in I : TRUE
         IN  rows_values[i] + SumOver(I \ {i}, rows_values)

\* the aggregate of the non-empty cells i \in I of a value column
Aggregate(aggfunc, I, v) ==
    CASE aggfunc = "count" -> Cell(Cardinality(I), 1)
      [] aggfunc = "sum" -> Cell(SumOver(I, v), 1)
      [] aggfunc = "mean" -> Cell(SumOver(I, v), Cardinality(I))
      [] aggfunc = "max" -> Cell(Max({v[i] : i \in I}), 1)
      [] aggfunc = "min" -> Cell(Min({v[i] : i \in I}), 1)

\* sum and count of no values are 0; mean, max and min of no values are NaN
Defined(aggfunc, I) == aggfunc \in {"sum", "count"} \/ I # {}

\* the label of the only value column when there is no group column
ValueLabel(values) == Str(values)

KeyOf(row, index, columns, values) ==
    <<row[index], IF columns = NoneSel THEN ValueLabel(values) ELSE row[columns]>>

\* a grouping that keeps the rows whose key has an empty cell (dropna=False)
GroupKeys_keepna(data, index, columns, values) ==
    {KeyOf(data.rows[i], index, columns, values) : i \in 1..Len(data.rows)}

\* groupby(keys, dropna=True): a row whose key has an empty cell is in no group
GroupKeys(data, index, columns, values) ==
    {k \in {KeyOf(data.rows[i], index, columns, values) : i \in 1..Len(data.rows)} :
        ~isnull(k[1]) /\ ~isnull(k[2])}

\* a count of rows rather than of values (aggfunc 'size')
Members_all(data, index, columns, values, k) ==
    {i \in 1..Len(data.rows) : KeyOf(data.rows[i], index, columns, values) = k}

\* the rows of a group whose value cell is not empty
Members(data, index, columns, values, k) ==
    {i \in 1..Len(data.rows) :
        /\ KeyOf(data.rows[i], index, columns, values) = k
        /\ ~isnull(data.rows[i][values])}

\* the selections for which the outcome depends on the library version and
\* on the shape of the table: no value column, or one column in two roles
LibraryDependent(index, columns, values) ==
    \/ values = NoneSel
    \/ index = columns
    \/ values = index
    \/ values = columns

DegenerateFrame == [degenerate |-> TRUE, index |-> {}, columns |-> {}, cells |-> <<>>]

Frame(idx, cols, cells) ==
    [degenerate |-> FALSE, index |-> idx, columns |-> cols, cells |-> cells]

\* unstack(fill_value=0) and fillna(0): one row per index value and one
\* column per group value that are left, 0 where there is no group
Unstack(data, index, columns, values, aggfunc, agged, idx, cols) ==
    Frame(idx, cols,
          [k \in idx \X cols |->
              IF k \in agged
              THEN Aggregate(aggfunc, Members(data, index, columns, values, k),
                             [i \in 1..Len(data.rows) |-> data.rows[i][values].n])
              ELSE fill_value])

Pivoted(data, index, columns, values, aggfunc, agged) ==
    Unstack(data, index, columns, values, aggfunc, agged,
            {k[1] : k \in agged}, {k[2] : k \in agged})

\* grouped.agg(aggfunc) followed by agged.dropna(how="all")
Agged(data, index, columns, values, aggfunc) ==
    {k \in GroupKeys(data, index, columns, values) :
        Defined(aggfunc, Members(data, index, columns, values, k))}

pivot_table(data, index, columns, values, aggfunc, lib) ==
    IF LibraryDependent(index, columns, values)
    THEN [raised |-> lib = "raise", df |-> DegenerateFrame]
    ELSE [raised |-> FALSE,
          df |-> Pivoted(data, index, columns, values, aggfunc,
                         Agged(data, index, columns, values, aggfunc))]

(***************************************************************************)
(* Pivot Workspace (lines 113-166).                                        *)
(***************************************************************************)
ChartTypes == {"Bar Chart", "Line Chart"}

NoFrame == [degenerate |-> FALSE, index |-> {}, columns |-> {}, cells |-> <<>>]

PivotSkipped ==
    [status |-> "skipped", warning |-> FALSE, selectors |-> FALSE,
     all_columns |-> <<>>, numeric_columns |-> <<>>,
     index |-> NoneSel, columns |-> NoneSel, values |-> NoneSel,
     aggfunc |-> "sum", pressed |-> FALSE, table |-> FALSE, pivot_df |-> NoFrame,
     radio |-> FALSE, chart |-> "none", error |-> FALSE]

PivotOutcome(table, pivot_df, radio, chart, error) ==
    [table |-> table, pivot_df |-> pivot_df, radio |-> radio,
     chart |-> chart, error |-> error, escaped |-> FALSE]

\* an except clause that lets the failure of the chart through
ShowPivot_uncaught(res, chart_type, lib) ==
    IF res.raised
    THEN PivotOutcome(FALSE, NoFrame, FALSE, "none", TRUE)
    ELSE IF (res.df.degenerate \/ res.df.index = {}) /\ lib = "raise"
    THEN [PivotOutcome(TRUE, res.df, TRUE, "none", FALSE) EXCEPT !.escaped = TRUE]
    ELSE PivotOutcome(TRUE, res.df, TRUE, chart_type, FALSE)

\* lines 146-166: the result is displayed, then charted; a chart of a frame
\* without rows or of a degenerate frame is library-dependent as well.
\* Whatever is raised is caught by `except Exception` and shown by st.error
ShowPivot(res, chart_type, lib) ==
    IF res.raised
    THEN PivotOutcome(FALSE, NoFrame, FALSE, "none", TRUE)
    ELSE IF (res.df.degenerate \/ res.df.index = {}) /\ lib = "raise"
    THEN PivotOutcome(TRUE, res.df, TRUE, "none", TRUE)
    ELSE PivotOutcome(TRUE, res.df, TRUE, chart_type, FALSE)

\* lines 136-166: the body of the button, inside try/except Exception
GeneratePivot(df_source, index, columns, values, aggfunc, chart_type, lib) ==
    ShowPivot(pivot_table(df_source, index, columns, values, aggfunc, lib),
              chart_type, lib)

Selectors(all_columns, numeric, index, columns, values, aggfunc, pressed) ==
    [PivotSkipped EXCEPT
        !.status = "rendered", !.selectors = TRUE,
        !.all_columns = all_columns, !.numeric_columns = numeric,
        !.index = index, !.columns = columns, !.values = values,
        !.aggfunc = aggfunc, !.pressed = pressed]

WithOutcome(shown, g) ==
    [shown EXCEPT
        !.status = IF g.escaped THEN "raised" ELSE "rendered",
        !.table = g.table, !.pivot_df = g.pivot_df,
        !.radio = g.radio, !.chart = g.chart, !.error = g.error]

\* lines 135-166
Workspace(df_source, all_columns, numeric, index, columns, values, w, pressed, lib) ==
    IF ~pressed
    THEN Selectors(all_columns, numeric, index, columns, values, w.aggfunc, pressed)
    ELSE WithOutcome(
             Selectors(all_columns, numeric, index, columns, values, w.aggfunc, pressed),
             GeneratePivot(df_source, index, columns, values, w.aggfunc,
                           w.chart_type, lib))

\* lines 127-131: a select box keeps its value while its options are the
\* same, and shows its first option otherwise
index_selected(w, all_columns) ==
    IF w.all_columns = all_columns THEN w.index ELSE all_columns[1]

columns_selected(w, all_columns) ==
    IF w.all_columns = all_columns THEN w.columns ELSE NoneSel

values_selected(w, numeric) ==
    IF w.numeric_columns = numeric THEN w.values
    ELSE IF numeric = <<>> THEN NoneSel ELSE numeric[1]

\* lines 122-166
Builder(df_source, numeric, w, pressed, lib) ==
    Workspace(df_source, df_source.columns, numeric,
              index_selected(w, df_source.columns),
              columns_selected(w, df_source.columns),
              values_selected(w, numeric), w, pressed, lib)

\* lines 119-166
PivotOf(df_source, w, pressed, lib) ==
    IF IsEmpty(df_source)
    THEN [PivotSkipped EXCEPT !.status = "rendered", !.warning = TRUE]
    ELSE Builder(df_source, numeric_columns(df_source), w, pressed, lib)

\* lines 116-117
PivotView(df_news, df_stocks, w, pressed, lib) ==
    PivotOf(IF w.dataset_choice = "News" THEN df_news ELSE df_stocks,
            w, pressed, lib)

(***************************************************************************)
(* One evaluation of the script (lines 19-166) and the widget state it    *)
(* leaves.  An exception outside a try block ends the evaluation: what    *)
(* follows is not evaluated.                                               *)
(***************************************************************************)
DefaultWidgets ==
    [categories |-> {}, sectors |-> {},
     stock_sectors |-> {}, stock_names |-> {}, date_range |-> <<>>,
     dataset_choice |-> "News",
     all_columns |-> <<>>, numeric_columns |-> <<>>,
     index |-> NoneSel, columns |-> NoneSel, values |-> NoneSel,
     aggfunc |-> "sum", chart_type |-> "Bar Chart"]

\* the third view is evaluated only when the views before it did not raise
AfterStocks(df_news, t2, w, pressed, lib) ==
    IF t2.status = "raised" THEN PivotSkipped
    ELSE PivotView(df_news, t2.df_stocks, w, pressed, lib)

Page(news, stocks, t1, t2, t3) ==
    [load_failed |-> [news |-> news.failed, stocks |-> stocks.failed],
     df_news |-> news.df,
     df_stocks |-> t2.df_stocks,
     news |-> t1,
     stocks |-> [status |-> t2.status,
                 shown |-> t2.status = "rendered",
                 filtered |-> t2.filtered,
                 date_input |-> t2.date_input,
                 date_range |-> t2.date_range],
     pivot |-> t3,
     uncaught |-> "raised" \in {t1.status, t2.status, t3.status}]

Views(news, stocks, t1, t2, w, pressed, lib) ==
    Page(news, stocks, t1, t2, AfterStocks(news.df, t2, w, pressed, lib))

Loaded(news, stocks, w, pressed, lib) ==
    Views(news, stocks, NewsView(news.df, w), StocksView(stocks.df, w),
          w, pressed, lib)

RunScript(f, w, pressed, lib) ==
    Loaded(load_data(f.news), load_data(f.stocks), w, pressed, lib)

\* the session's widget values after a run: a widget the run did not
\* render loses its value, unless the run was cut short by an exception
WidgetsAfter(w, p) ==
    IF p.uncaught THEN w
    ELSE [w EXCEPT
            !.all_columns = p.pivot.all_columns,
            !.numeric_columns = p.pivot.numeric_columns,
            !.index = p.pivot.index,
            !.columns = p.pivot.columns,
            !.values = p.pivot.values,
            !.aggfunc = p.pivot.aggfunc,
            !.chart_type = IF p.pivot.radio THEN w.chart_type ELSE "Bar Chart"]

(***************************************************************************)
(* The spreadsheet files of the model.                                     *)
(***************************************************************************)
Table(cols, rows) == [columns |-> cols, rows |-> rows]
File(df) == [readable |-> TRUE, content |-> df]
Unreadable == [readable |-> FALSE, content |-> EmptyTable]

NewsRow(c, s, x) == [category |-> c, sector |-> s, sentiment_score |-> x]
StockRow(s, nm, d, p) == [sector |-> s, stock_name |-> nm, date |-> d, price |-> p]

NewsFiles ==
    { Unreadable,
      File(Table(<<"category", "sector", "sentiment_score">>,
                 << NewsRow(Str("Macro"), Str("Tech"), Num(1)),
                    NewsRow(Str("Earnings"), Null, Num(2)),
                    NewsRow(Null, Str("Fin"), Null) >>)),
      File(Table(<<"sector", "sentiment_score">>,
                 << [sector |-> Str("Tech"), sentiment_score |-> Num(1)],
                    [sector |-> Str("Fin"), sentiment_score |-> Num(2)] >>)) }

StocksColumns == <<"sector", "stock_name", "date", "price">>

StocksFiles ==
    { Unreadable,
      \* dates stored as dates
      File(Table(StocksColumns,
                 << StockRow(Str("Tech"), Str("A"), Day(1), Num(10)),
                    StockRow(Str("Tech"), Str("B"), Day(2), Num(20)) >>)),
      \* an empty date cell
      File(Table(StocksColumns,
                 << StockRow(Str("Tech"), Str("A"), Day(1), Num(10)),
                    StockRow(Str("Fin"), Str("B"), Null, Num(20)) >>)),
      \* dates stored as text
      File(Table(StocksColumns,
                 << StockRow(Str("Tech"), Str("A"), Str("2024-01-01"), Num(10)),
                    StockRow(Str("Tech"), Str("B"), Str("2024-01-02"), Num(20)) >>)),
      \* one unparseable date
      File(Table(StocksColumns,
                 << StockRow(Str("Tech"), Str("A"), Day(1), Num(10)),
                    StockRow(Str("Fin"), Str("B"), Str("n/a"), Null) >>)),
      \* no parseable date at all
      File(Table(StocksColumns,
                 << StockRow(Null, Str("A"), Str("n/a"), Num(10)) >>)),
      \* a time of day
      File(Table(StocksColumns,
                 << StockRow(Str("Tech"), Str("A"), Day(1), Num(10)),
                    StockRow(Str("Tech"), Str("A"), Ts(2 * TicksPerDay + 1), Num(20)) >>)),
      \* no date column, and a price column without values
      File(Table(<<"sector", "stock_name", "price", "volume">>,
                 << [sector |-> Str("Tech"), stock_name |-> Str("A"),
                     price |-> Null, volume |-> Num(5)],
                    [sector |-> Null, stock_name |-> Str("B"),
                     price |-> Null, volume |-> Num(7)] >>)),
      \* no numeric column
      File(Table(<<"sector", "stock_name">>,
                 << [sector |-> Str("Tech"), stock_name |-> Str("A")] >>)) }

CalendarDays == {1, 2}

(***************************************************************************)
(* The session.                                                            *)
(***************************************************************************)
LibraryOutcomes == {"raise", "tolerate"}

\* the state after the first evaluation of the script
Init ==
    /\ files \in [news : NewsFiles, stocks : StocksFiles]
    /\ \E lib \in LibraryOutcomes :
         page = RunScript(files, DefaultWidgets, FALSE, lib)
    /\ widgets = WidgetsAfter(DefaultWidgets, page)
    /\ interactions = 0

\* an interaction changes one widget and triggers a rerun
Rerun(w, pressed) ==
    /\ interactions < MaxInteractions
    /\ interactions' = interactions + 1
    /\ \E lib \in LibraryOutcomes :
         page' = RunScript(files, w, pressed, lib)
    /\ widgets' = WidgetsAfter(w, page')
    /\ UNCHANGED files

Toggle(S, x) == IF x \in S THEN S \ {x} ELSE S \cup {x}

\* line 33
SelectCategory ==
    \E x \in category_options(load_data(files.news).df) :
        Rerun([widgets EXCEPT !.categories = Toggle(@, x)], FALSE)

\* line 34
SelectSector ==
    \E x \in sector_options(load_data(files.news).df) :
        Rerun([widgets EXCEPT !.sectors = Toggle(@, x)], FALSE)

\* line 67
SelectStockSector ==
    \E x \in stock_sector_options(load_data(files.stocks).df) :
        Rerun([widgets EXCEPT !.stock_sectors = Toggle(@, x)], FALSE)

\* line 73
SelectStockName ==
    \E x \in stock_name_options(load_data(files.stocks).df) :
        Rerun([widgets EXCEPT !.stock_names = Toggle(@, x)], FALSE)

\* line 89: a complete range, or its first date alone while the user is
\* still picking
SelectDateRange ==
    /\ page.stocks.date_input
    /\ \E s \in CalendarDays :
         \/ Rerun([widgets EXCEPT !.date_range = <<s>>], FALSE)
         \/ \E e \in CalendarDays :
              /\ s <= e
              /\ Rerun([widgets EXCEPT !.date_range = <<s, e>>], FALSE)

\* line 116
SelectDataset ==
    /\ page.pivot.status = "rendered"
    /\ \E d \in {"News", "Stocks"} \ {widgets.dataset_choice} :
         Rerun([widgets EXCEPT !.dataset_choice = d], FALSE)

\* line 127
SelectIndex ==
    /\ page.pivot.selectors
    /\ \E c \in Range(page.pivot.all_columns) \ {widgets.index} :
         Rerun([widgets EXCEPT !.index = c], FALSE)

\* line 129
SelectColumns ==
    /\ page.pivot.selectors
    /\ \E c \in (Range(page.pivot.all_columns) \cup {NoneSel}) \ {widgets.columns} :
         Rerun([widgets EXCEPT !.columns = c], FALSE)

\* line 131
SelectValues ==
    /\ page.pivot.selectors
    /\ \E c \in Range(page.pivot.numeric_columns) \ {widgets.values} :
         Rerun([widgets EXCEPT !.values = c], FALSE)

\* line 133
SelectAggfunc ==
    /\ page.pivot.selectors
    /\ \E a \in AggFuncs \ {widgets.aggfunc} :
         Rerun([widgets EXCEPT !.aggfunc = a], FALSE)

\* line 135: st.button is True in the rerun its click triggers, and only there
PressGenerate ==
    /\ page.pivot.selectors
    /\ Rerun(widgets, TRUE)

\* line 150
SelectChartType ==
    /\ page.pivot.radio
    /\ \E k \in ChartTypes \ {widgets.chart_type} :
         Rerun([widgets EXCEPT !.chart_type = k], FALSE)

Next ==
    \/ SelectCategory
    \/ SelectSector
    \/ SelectStockSector
    \/ SelectStockName
    \/ SelectDateRange
    \/ SelectDataset
    \/ SelectIndex
    \/ SelectColumns
    \/ SelectValues
    \/ SelectAggfunc
    \/ PressGenerate
    \/ SelectChartType

Spec == Init /\ [][Next]_vars

(***************************************************************************)
(* The pivot engine on its own: the session stands in the Pivot Workspace *)
(* with the Stocks table selected and any selection of index, columns,    *)
(* values and aggregation function made; the user presses the button.     *)
(***************************************************************************)
PivotColumns == <<"sector", "stock_name", "price">>

PivotRows ==
    [sector : {Str("Tech"), Str("Fin"), Null},
     stock_name : {Str("A"), Str("B"), Null},
     price : {Num(10), Null}]

PivotTables ==
    UNION {[1..n -> PivotRows] : n \in 1..MaxRows}

PivotNews ==
    File(Table(<<"sector", "sentiment_score">>,
               << [sector |-> Str("Tech"), sentiment_score |-> Num(1)] >>))

PivotInit ==
    /\ \E rows \in PivotTables :
         files = [news |-> PivotNews, stocks |-> File(Table(PivotColumns, rows))]
    /\ \E i \in Range(PivotColumns), c \in Range(PivotColumns) \cup {NoneSel},
          v \in Range(numeric_columns(files.stocks.content)), a \in AggFuncs :
         widgets = [DefaultWidgets EXCEPT
                      !.dataset_choice = "Stocks",
                      !.all_columns = PivotColumns,
                      !.numeric_columns = numeric_columns(files.stocks.content),
                      !.index = i, !.columns = c, !.values = v, !.aggfunc = a]
    /\ page = RunScript(files, widgets, FALSE, "tolerate")
    \* the press is the last interaction the bound allows
    /\ interactions = MaxInteractions - 1

PivotSpec == PivotInit /\ [][PressGenerate]_vars

(***************************************************************************)
(* Properties.                                                             *)
(***************************************************************************)
news_loaded == load_data(files.news).df
stocks_loaded == load_data(files.stocks).df

\* the table the Pivot Workspace works on (line 117)
df_source == IF widgets.dataset_choice = "News" THEN page.df_news ELSE page.df_stocks

\* C1: after any rerun the two source tables hold exactly the values they
\* had when loaded.
C1_SourcesNeverWritten ==
    /\ page.df_news = news_loaded
    /\ page.df_stocks = stocks_loaded

NoFilterActive ==
    /\ widgets.categories = {}
    /\ widgets.sectors = {}
    /\ widgets.stock_sectors = {}
    /\ widgets.stock_names = {}
    /\ widgets.date_range = <<>>

\* C2: with no filter active and the date range at its default, the
\* filtered tables that are shown hold exactly the rows of the source tables.
C2_NoFilterKeepsEveryRow ==
    NoFilterActive =>
        /\ page.news.filtered.rows = news_loaded.rows
        /\ page.stocks.shown => page.stocks.filtered.rows = stocks_loaded.rows

\* C3: with a date column the Stocks view never raises, and whenever the
\* date filter is applied every row left has a parsed, non-null date.
C3_DateFilterNeverRaises ==
    HasColumn(stocks_loaded, "date") =>
        /\ page.stocks.status = "rendered"
        /\ Len(page.stocks.date_range) = 2 =>
             \A i \in 1..Len(page.stocks.filtered.rows) :
                 to_datetime(page.stocks.filtered.rows[i]["date"]) # Null

\* the pivot result is on the page, for a specification with a group column
\* and every column in one role
PivotShownWithGroup ==
    /\ page.pivot.pressed
    /\ page.pivot.table
    /\ ~page.pivot.pivot_df.degenerate
    /\ widgets.columns # NoneSel

DistinctValues(c) == {df_source.rows[i][c] : i \in 1..Len(df_source.rows)}

Retained(i, g) ==
    /\ ~isnull(i)
    /\ ~isnull(g)
    /\ \E r \in 1..Len(df_source.rows) :
          /\ df_source.rows[r][widgets.index] = i
          /\ df_source.rows[r][widgets.columns] = g
          /\ \/ widgets.aggfunc \in {"sum", "count"}
             \/ ~isnull(df_source.rows[r][widgets.values])

RECURSIVE SumCells(_, _)
SumCells(cells, K) ==
    IF K = {} THEN 0
    ELSE LET k == CHOOSE x \in K : TRUE
         IN  cells[k].num + SumCells(cells, K \ {k})

CountShown ==
    /\ page.pivot.pressed
    /\ page.pivot.table
    /\ ~page.pivot.pivot_df.degenerate
    /\ widgets.aggfunc = "count"

ChooseChart(k) ==
    /\ page.pivot.radio
    /\ k # widgets.chart_type
    /\ Rerun([widgets EXCEPT !.chart_type = k], FALSE)

\* C6: once the user has picked a chart kind, the pivot result is displayed
\* as a table and as a chart of that kind.
C6_ChosenChartDisplayed ==
    [][\A k \in ChartTypes :
          ChooseChart(k) => page'.pivot.table /\ page'.pivot.chart = k]_vars

\* C7: when the News view or the Stocks view raises, the views after it are
\* still evaluated and displayed in the same rerun.
C7_FailureStaysInItsView ==
    /\ page.news.status = "raised" => page.stocks.status # "skipped"
    /\ (page.news.status = "raised" \/ page.stocks.status = "raised")
          => page.pivot.status = "rendered"

Selections(w) ==
    <<w.dataset_choice, w.index, w.columns, w.values, w.aggfunc>>

\* C8: whenever the button is pressed and the pivot or its chart fails, an
\* inline error is shown, no exception escapes the view, and the source
\* tables and the five selections are what they were before the press.
C8_PivotFailureIsContained ==
    [][(PressGenerate /\ page'.pivot.chart = "none") =>
          /\ page'.pivot.error
          /\ page'.pivot.status = "rendered"
          /\ ~page'.uncaught
          /\ Selections(widgets') = Selections(widgets)
          /\ page'.df_news = page.df_news
          /\ page'.df_stocks = page.df_stocks]_vars

\* a press after which the pivot result was displayed and could not be
\* charted
C8_Witness ==
    /\ page.pivot.pressed
    /\ page.pivot.table
    /\ page.pivot.chart = "none"
    /\ page.pivot.error

\* C9: a file that cannot be read yields an empty table and a reported
\* error, and with both tables empty every rerun renders the three views
\* without raising, with empty tables and the placeholder warning.
C9_LoadFailureRendersEmptyViews ==
    /\ ~files.news.readable =>
          page.load_failed.news /\ page.df_news = EmptyTable
    /\ ~files.stocks.readable =>
          page.load_failed.stocks /\ page.df_stocks = EmptyTable
    /\ (~files.news.readable /\ ~files.stocks.readable) =>
          /\ ~page.uncaught
          /\ page.news.status = "rendered"
          /\ page.stocks.status = "rendered"
          /\ page.pivot.status = "rendered"
          /\ page.news.filtered = EmptyTable
          /\ page.stocks.filtered = EmptyTable
          /\ page.pivot.warning
          /\ ~page.pivot.selectors

\* both files unreadable, after a rerun triggered by the user
C9_Witness ==
    /\ ~files.news.readable
    /\ ~files.stocks.readable
    /\ interactions > 0
    /\ widgets.dataset_choice = "Stocks"

\* the rows of the Stocks table that satisfy every active predicate, the
\* date taken as coerced
SatisfiesStocks(row) ==
    /\ widgets.stock_sectors # {} => row["sector"] \in widgets.stock_sectors
    /\ widgets.stock_names # {} => row["stock_name"] \in widgets.stock_names
    /\ (HasColumn(stocks_loaded, "date") /\ Len(page.stocks.date_range) = 2) =>
          InRange(to_datetime(row["date"]),
                  Day(page.stocks.date_range[1]), Day(page.stocks.date_range[2]))

SatisfiesNews(row) ==
    /\ (widgets.categories # {} /\ HasColumn(news_loaded, "category")) =>
          row["category"] \in widgets.categories
    /\ (widgets.sectors # {} /\ HasColumn(news_loaded, "sector")) =>
          row["sector"] \in widgets.sectors

\* C10: for every table and every combination of selections the filtered
\* table of each view is exactly the source rows that satisfy every active
\* predicate.
C10_FilteredIsExactlyTheMatchingRows ==
    /\ page.news.filtered.rows = SelectSeq(news_loaded.rows, SatisfiesNews)
    /\ page.stocks.shown
    /\ page.stocks.filtered.rows = SelectSeq(stocks_loaded.rows, SatisfiesStocks)

====
